---------------------------- MODULE Spec2Model ----------------------------
(***************************************************************************)
(* Model of scripts/convert_to_lemmas.py: the CSV -> validated -> nested   *)
(* JSON pipeline (loaders, validate_pericopes, build_json, main).          *)
(*                                                                         *)
(* A data frame is a sequence of records (its rows, in frame order).  The  *)
(* two CSV files are the environment: their content is chosen when         *)
(* pd.read_csv reads them.  A verse text is a sequence of character        *)
(* classes: "g" a letter of the Greek blocks U+0370-03FF / U+1F00-1FFF,    *)
(* "x" any other non-blank character, " " white space; NaN is the float    *)
(* pandas yields for an empty text cell.                                   *)
(***************************************************************************)
EXTENDS Integers, Sequences, FiniteSets, TLC

VARIABLES
    argv,           \* parsed command line: [npos, strict, rfc, fallback]
    pc,             \* position in main()
    verses_df,      \* frame returned by load_verses
    pericopes_df,   \* frame returned by load_pericopes
    has_order,      \* whether pericopes_df has an 'order' column
    ok,             \* verdict returned by validate_pericopes
    warnings,       \* warning list returned by validate_pericopes
    data,           \* value returned by build_json
    out_json,       \* content of the output file (NoFile: never written)
    log,            \* messages the loaders and build_json sent to the logger
    exit_status     \* process exit status (NoStatus while running)

vars == << argv, pc, verses_df, pericopes_df, has_order, ok, warnings,
           data, out_json, log, exit_status >>

-----------------------------------------------------------------------------
(* Bounds of the model *)

\* verse numbers of the validator's inputs range over 1..MaxVerse
MaxVerse == 3
\* rows of the pericope table in the validator's inputs
MaxPericopes == 2
\* verse numbers of the assembler's inputs range over 1..MaxAsmVerse
MaxAsmVerse == 2

Chapters == {1, 2}
RowCounts == 0 .. 2          \* rows of a table in the assembler's inputs
WalkRowCounts == 0 .. 3      \* rows of a chapter in the walk's one-chapter tables
CliRowCounts == 0 .. 1       \* rows of the pericope table in the CLI runs
OrderValues == {1, 2}

NaN == "NaN"
TextGreek == << "g", "g", " ", "x", "g" >>     \* two Greek words
TextLatin == << "x", "x", " ", "x" >>          \* no Greek word, two blank-separated parts
Title == "t"
PericopeIds == << "P1", "P2", "P3", "P4" >>

NoStatus == 0 - 1
NoFile == << "no file" >>

-----------------------------------------------------------------------------
(* Exit statuses *)

ExitOk == 0
ExitFatal == 1
ExitStrict == 2
ExitArgparse == 2

-----------------------------------------------------------------------------
(* Stable sorting, as DataFrame.sort_values(keys, kind='mergesort') *)

RECURSIVE LexLess(_, _)
LexLess(a, b) ==
    IF a = << >> \/ b = << >> THEN FALSE
    ELSE IF Head(a) # Head(b) THEN Head(a) < Head(b)
    ELSE LexLess(Tail(a), Tail(b))

\* x goes after every element whose key is not greater than its own
RECURSIVE InsertStable(_, _)
InsertStable(sorted, x) ==
    IF sorted = << >> THEN << x >>
    ELSE IF LexLess(x.key, Head(sorted).key) THEN << x >> \o sorted
    ELSE << Head(sorted) >> \o InsertStable(Tail(sorted), x)

RECURSIVE SortKeyed(_)
SortKeyed(s) ==
    IF s = << >> THEN << >>
    ELSE InsertStable(SortKeyed(SubSeq(s, 1, Len(s) - 1)), s[Len(s)])

\* by[i] is the tuple of the sort columns' values in row i
sort_values(df, by) ==
    LET keyed == [ i \in 1 .. Len(df) |-> [key |-> by[i], row |-> df[i]] ]
        sorted == SortKeyed(keyed)
    IN  [ i \in 1 .. Len(df) |-> sorted[i].row ]

Max(S) == CHOOSE m \in S : \A x \in S : x <= m

\* the keys of df.groupby('chapter'), which come in ascending order
RECURSIVE Ascending(_)
Ascending(S) ==
    IF S = {} THEN << >>
    ELSE LET m == CHOOSE x \in S : \A y \in S : x <= y
         IN  << m >> \o Ascending(S \ {m})

ChaptersOf(df) == { df[i].chapter : i \in 1 .. Len(df) }
Group(df, chap) == SelectSeq(df, LAMBDA r : r.chapter = chap)

-----------------------------------------------------------------------------
(* Loaders *)

load_verses(rows) ==
    sort_values(rows, [ i \in 1 .. Len(rows) |-> << rows[i].chapter, rows[i].verse >> ])

SortPericopes(rows, order) ==
    IF order
    THEN sort_values(rows, [ i \in 1 .. Len(rows) |->
             << rows[i].chapter, rows[i].order, rows[i].start_verse, rows[i].end_verse >> ])
    ELSE sort_values(rows, [ i \in 1 .. Len(rows) |->
             << rows[i].chapter, rows[i].start_verse, rows[i].end_verse >> ])

\* faulty variant: the comparison of the interval test is turned around
BadIntervals_Reversed(df) == SelectSeq(df, LAMBDA r : r.start_verse < r.end_verse)

BadIntervals(df) == SelectSeq(df, LAMBDA r : r.start_verse > r.end_verse)

\* a loader's logger.error message; rows: the rows the message prints
LoadError(what, rows) == [error |-> what, rows |-> rows]


-----------------------------------------------------------------------------
(* validate_pericopes *)

Warning(kind, chap, id, a, b) ==
    [kind |-> kind, chap |-> chap, id |-> id, a |-> a, b |-> b]

\* faulty variant: the chapter's first verse instead of its last (.min() for .max())
LastVerse_Min(vdf) ==
    [ c \in ChaptersOf(vdf) |->
        CHOOSE m \in { vdf[i].verse : i \in { j \in 1 .. Len(vdf) : vdf[j].chapter = c } } :
            \A k \in { j \in 1 .. Len(vdf) : vdf[j].chapter = c } : m <= vdf[k].verse ]

\* verses_df.groupby('chapter')['verse'].max().to_dict()
LastVerse(vdf) ==
    [ c \in ChaptersOf(vdf) |->
        Max({ vdf[i].verse : i \in { j \in 1 .. Len(vdf) : vdf[j].chapter = c } }) ]

\* faulty variant: the walk takes the chapter's rows as the table has them
WalkOrder_TableOrder(pdf, chap) == Group(pdf, chap)

\* grp.sort_values(['start_verse','end_verse'])
WalkOrder(pdf, chap) ==
    LET grp == Group(pdf, chap)
    IN  sort_values(grp, [ i \in 1 .. Len(grp) |-> << grp[i].start_verse, grp[i].end_verse >> ])

\* faulty variant: a pericope starting on the cursor's verse is not an overlap
WalkStep_OverlapStrict(st, r, chap, rfc) ==
    LET overlap == r.start_verse < st.last_end /\ st.last_end # 0
        gap == r.start_verse # st.last_end + 1
        w1 == IF overlap
              THEN Append(st.warnings,
                          Warning("overlap", chap, "", r.start_verse, st.last_end))
              ELSE st.warnings
        w2 == IF gap
              THEN Append(w1, Warning("gap", chap, "", st.last_end, r.start_verse))
              ELSE w1
    IN  [ ok |-> st.ok /\ ~ overlap /\ ~ (gap /\ rfc),
          warnings |-> w2,
          last_end |-> r.end_verse ]

\* faulty variant: an overlap is logged but leaves the verdict alone
WalkStep_OverlapNotFatal(st, r, chap, rfc) ==
    LET overlap == r.start_verse <= st.last_end /\ st.last_end # 0
        gap == r.start_verse # st.last_end + 1
        w1 == IF overlap
              THEN Append(st.warnings,
                          Warning("overlap", chap, "", r.start_verse, st.last_end))
              ELSE st.warnings
        w2 == IF gap
              THEN Append(w1, Warning("gap", chap, "", st.last_end, r.start_verse))
              ELSE w1
    IN  [ ok |-> st.ok /\ ~ (gap /\ rfc),
          warnings |-> w2,
          last_end |-> r.end_verse ]

\* faulty variant: a gap fails the verdict without looking at require_full_coverage
WalkStep_GapAlwaysFatal(st, r, chap, rfc) ==
    LET overlap == r.start_verse <= st.last_end /\ st.last_end # 0
        gap == r.start_verse # st.last_end + 1
        w1 == IF overlap
              THEN Append(st.warnings,
                          Warning("overlap", chap, "", r.start_verse, st.last_end))
              ELSE st.warnings
        w2 == IF gap
              THEN Append(w1, Warning("gap", chap, "", st.last_end, r.start_verse))
              ELSE w1
    IN  [ ok |-> st.ok /\ ~ overlap /\ ~ gap,
          warnings |-> w2,
          last_end |-> r.end_verse ]

\* one turn of the loop over a chapter's pericopes; st = [ok, warnings, last_end]
WalkStep(st, r, chap, rfc) ==
    LET overlap == r.start_verse <= st.last_end /\ st.last_end # 0
        gap == r.start_verse # st.last_end + 1
        w1 == IF overlap
              THEN Append(st.warnings,
                          Warning("overlap", chap, "", r.start_verse, st.last_end))
              ELSE st.warnings
        w2 == IF gap
              THEN Append(w1, Warning("gap", chap, "", st.last_end, r.start_verse))
              ELSE w1
    IN  [ ok |-> st.ok /\ ~ overlap /\ ~ (gap /\ rfc),
          warnings |-> w2,
          last_end |-> r.end_verse ]

RECURSIVE Walk(_, _, _, _)
Walk(st, grp, chap, rfc) ==
    IF grp = << >> THEN st
    ELSE Walk(WalkStep(st, Head(grp), chap, rfc), Tail(grp), chap, rfc)

\* faulty variant: a mismatch fails the verdict without looking at require_full_coverage
ChapterEnd_AlwaysFatal(st, chap, last_verse, rfc) ==
    LET maxv == IF chap \in DOMAIN last_verse THEN last_verse[chap] ELSE st.last_end
        mismatch == st.last_end # maxv
    IN  [ ok |-> st.ok /\ ~ mismatch,
          warnings |-> IF mismatch
                       THEN Append(st.warnings,
                                   Warning("mismatch", chap, "", st.last_end, maxv))
                       ELSE st.warnings ]

\* the comparison of the final cursor with the chapter's last verse
ChapterEnd(st, chap, last_verse, rfc) ==
    LET maxv == IF chap \in DOMAIN last_verse THEN last_verse[chap] ELSE st.last_end
        mismatch == st.last_end # maxv
    IN  [ ok |-> st.ok /\ ~ (mismatch /\ rfc),
          warnings |-> IF mismatch
                       THEN Append(st.warnings,
                                   Warning("mismatch", chap, "", st.last_end, maxv))
                       ELSE st.warnings ]

\* the loop over peris_df.groupby('chapter'); res = [ok, warnings]
RECURSIVE WalkChapters(_, _, _, _, _)
WalkChapters(res, chaps, pdf, last_verse, rfc) ==
    IF chaps = << >> THEN res
    ELSE LET chap == Head(chaps)
             st == Walk([ok |-> res.ok, warnings |-> res.warnings, last_end |-> 0],
                        WalkOrder(pdf, chap), chap, rfc)
         IN  WalkChapters(ChapterEnd(st, chap, last_verse, rfc),
                          Tail(chaps), pdf, last_verse, rfc)

\* faulty variant: a chapter without verses is logged but leaves the verdict alone
EachStep_NoVersesNotFatal(res, r, last_verse) ==
    IF r.chapter \notin DOMAIN last_verse
    THEN [ ok |-> res.ok,
           warnings |-> Append(res.warnings,
                               Warning("noverses", r.chapter, "", 0, 0)) ]
    ELSE IF r.end_verse > last_verse[r.chapter]
    THEN [ ok |-> FALSE,
           warnings |-> Append(res.warnings,
                               Warning("beyond", r.chapter, r.pericope_id,
                                       r.end_verse, last_verse[r.chapter])) ]
    ELSE res

\* one turn of the second loop, over every pericope of peris_df
EachStep(res, r, last_verse) ==
    IF r.chapter \notin DOMAIN last_verse
    THEN [ ok |-> FALSE,
           warnings |-> Append(res.warnings,
                               Warning("noverses", r.chapter, "", 0, 0)) ]
    ELSE IF r.end_verse > last_verse[r.chapter]
    THEN [ ok |-> FALSE,
           warnings |-> Append(res.warnings,
                               Warning("beyond", r.chapter, r.pericope_id,
                                       r.end_verse, last_verse[r.chapter])) ]
    ELSE res

RECURSIVE EachPericope(_, _, _)
EachPericope(res, pdf, last_verse) ==
    IF pdf = << >> THEN res
    ELSE EachPericope(EachStep(res, Head(pdf), last_verse), Tail(pdf), last_verse)

validate_pericopes(vdf, pdf, rfc) ==
    LET last_verse == LastVerse(vdf)
        walked == WalkChapters([ok |-> TRUE, warnings |-> << >>],
                               Ascending(ChaptersOf(pdf)), pdf, last_verse, rfc)
    IN  EachPericope(walked, pdf, last_verse)

-----------------------------------------------------------------------------
(* parse_lemmas_text_only *)

\* the maximal runs of characters of class S in t; cur is the run being read
RECURSIVE RunsOf(_, _, _)
RunsOf(t, S, cur) ==
    LET done == IF cur = << >> THEN << >> ELSE << cur >>
    IN  IF t = << >> THEN done
        ELSE IF Head(t) \in S THEN RunsOf(Tail(t), S, Append(cur, Head(t)))
        ELSE done \o RunsOf(Tail(t), S, << >>)

\* GREEK_WORD_RE.findall(text)
GreekWords(text) == RunsOf(text, {"g"}, << >>)
\* text.split()
SplitBlank(text) == RunsOf(text, {"g", "x"}, << >>)

Lemmas(words) == [ i \in 1 .. Len(words) |-> [lemma |-> words[i]] ]

UsesFallback(text, fallback_ws) ==
    text # NaN /\ GreekWords(text) = << >> /\ fallback_ws

parse_lemmas_text_only(text, fallback_ws) ==
    IF text = NaN THEN << >>
    ELSE IF UsesFallback(text, fallback_ws) THEN Lemmas(SplitBlank(text))
    ELSE Lemmas(GreekWords(text))

-----------------------------------------------------------------------------
(* build_json *)

RECURSIVE Flatten(_)
Flatten(ss) == IF ss = << >> THEN << >> ELSE Head(ss) \o Flatten(Tail(ss))

\* faulty variant: the interval's end is left out
SelectVerses_EndExclusive(vdf, row) ==
    LET sel == SelectSeq(vdf, LAMBDA v : v.verse >= row.start_verse
                                         /\ v.verse < row.end_verse)
    IN  sort_values(sel, [ i \in 1 .. Len(sel) |-> << sel[i].verse >> ])

\* vdf[(verse >= start) & (verse <= end)].sort_values('verse', kind='mergesort')
SelectVerses(vdf, row) ==
    LET sel == SelectSeq(vdf, LAMBDA v : v.verse >= row.start_verse
                                         /\ v.verse <= row.end_verse)
    IN  sort_values(sel, [ i \in 1 .. Len(sel) |-> << sel[i].verse >> ])

VersesPayload(sel, fallback_ws) ==
    [ i \in 1 .. Len(sel) |->
        [ verse |-> sel[i].verse,
          tokens |-> parse_lemmas_text_only(sel[i].text, fallback_ws) ] ]

PericopeBlock(vdf, row, fallback_ws) ==
    [ id |-> row.pericope_id,
      title |-> row.title,
      start_verse |-> row.start_verse,
      end_verse |-> row.end_verse,
      verses |-> VersesPayload(SelectVerses(vdf, row), fallback_ws) ]

\* the chapter's pericopes in the order build_json emits them
BuildOrder(pdf, chap, order) ==
    LET grp == Group(pdf, chap)
    IN  IF order /\ grp # << >>
        THEN sort_values(grp, [ i \in 1 .. Len(grp) |->
                 << grp[i].order, grp[i].start_verse, grp[i].end_verse >> ])
        ELSE sort_values(grp, [ i \in 1 .. Len(grp) |->
                 << grp[i].start_verse, grp[i].end_verse >> ])

\* faulty variant: the verses are not narrowed to the chapter
ChapterBlock_AllVerses(vdf, pdf, chap, order, fallback_ws) ==
    LET rows == BuildOrder(pdf, chap, order)
    IN  [ chapter |-> chap,
          pericopes |-> [ i \in 1 .. Len(rows) |->
                            PericopeBlock(vdf, rows[i], fallback_ws) ] ]

ChapterBlock(vdf, pdf, chap, order, fallback_ws) ==
    LET rows == BuildOrder(pdf, chap, order)
    IN  [ chapter |-> chap,
          pericopes |-> [ i \in 1 .. Len(rows) |->
                            PericopeBlock(Group(vdf, chap), rows[i], fallback_ws) ] ]

\* faulty variant: only the chapters of the verse table
AllChapters_VersesOnly(vdf, pdf) == Ascending(ChaptersOf(vdf))

AllChapters(vdf, pdf) == Ascending(ChaptersOf(vdf) \cup ChaptersOf(pdf))

build_json(vdf, pdf, order, fallback_ws) ==
    LET chaps == AllChapters(vdf, pdf)
    IN  [ i \in 1 .. Len(chaps) |-> ChapterBlock(vdf, pdf, chaps[i], order, fallback_ws) ]

\* the "no Greek word detected" warnings build_json logs, in order
NoTokens(block) ==
    LET vs == block.verses
    IN  Flatten([ i \in 1 .. Len(vs) |->
                    IF vs[i].tokens = << >> THEN << vs[i].verse >> ELSE << >> ])

BuildLog(chapters) ==
    Flatten([ i \in 1 .. Len(chapters) |->
        Flatten([ j \in 1 .. Len(chapters[i].pericopes) |->
            LET nt == NoTokens(chapters[i].pericopes[j])
            IN  [ k \in 1 .. Len(nt) |->
                    [chapter |-> chapters[i].chapter, verse |-> nt[k]] ] ]) ])

-----------------------------------------------------------------------------
(* detect_overlaps, the overlap walk of convert_csv_with_pericopes.py *)

\* the cursor before the first interval of a chapter
NoEnd == 0 - 10 ^ 9

\* the loop over intervals_sorted; last_end advances to the maximum
RECURSIVE DetectWalk(_, _, _)
DetectWalk(st, grp, chap) ==
    IF grp = << >> THEN st
    ELSE LET r == Head(grp)
             overlap == r.start_verse <= st.last_end
         IN  DetectWalk([ warnings |-> IF overlap
                                       THEN Append(st.warnings,
                                                   [chap |-> chap, s |-> r.start_verse,
                                                    last_end |-> st.last_end])
                                       ELSE st.warnings,
                          last_end |-> Max({st.last_end, r.end_verse}) ],
                        Tail(grp), chap)

detect_overlaps(peris) ==
    LET chaps == Ascending(ChaptersOf(peris))
    IN  Flatten([ i \in 1 .. Len(chaps) |->
            LET g == Group(peris, chaps[i])
                intervals_sorted ==
                    sort_values(g, [ k \in 1 .. Len(g) |->
                                       << g[k].start_verse, g[k].end_verse >> ])
            IN  DetectWalk([warnings |-> << >>, last_end |-> NoEnd],
                           intervals_sorted, chaps[i]).warnings ])

-----------------------------------------------------------------------------
(* The CSV files the runs read *)

VerseRow(c, v, t) == [chapter |-> c, verse |-> v, text |-> t]

\* verses m, m-1, .. 1 of chapter c, as written in the file (descending)
VerseRange(c, m) == [ i \in 1 .. m |-> VerseRow(c, m + 1 - i, TextGreek) ]

\* chapter 1 holds the verses 1..m (none when m = 0); chapter 2 holds the same
\* verses or none; the last chapter comes first in the file
RangeVerseFiles(maxv) ==
    { VerseRange(2, m[2]) \o VerseRange(1, m[1]) :
        m \in { f \in [Chapters -> 0 .. maxv] : f[2] \in {0, f[1]} } }

\* any rows, in any order
AnyVerseFiles(counts, maxv, texts) ==
    UNION { [ 1 .. n -> [chapter : Chapters, verse : 1 .. maxv, text : texts] ]
            : n \in counts }

PericopeKeys(maxv, valid, orders) ==
    { k \in [chapter : Chapters, start_verse : 1 .. maxv, end_verse : 1 .. maxv,
             order : orders] : valid => k.start_verse <= k.end_verse }

PericopeRows(keys, ids) ==
    [ i \in 1 .. Len(keys) |->
        [ pericope_id |-> ids[i], title |-> Title, chapter |-> keys[i].chapter,
          start_verse |-> keys[i].start_verse, end_verse |-> keys[i].end_verse,
          order |-> keys[i].order ] ]

\* a pericope file: whether it has an 'order' column, and its rows
PericopeFiles(counts, maxv, valid, order, ids) ==
    { [ has_order |-> order,
        rows |-> PericopeRows(keys, ids) ]
      : keys \in UNION { [ 1 .. n -> PericopeKeys(maxv, valid,
                                                  IF order THEN OrderValues ELSE {0}) ]
                         : n \in counts } }

SameIds == [ i \in 1 .. 4 |-> PericopeIds[1] ]

CliVerseFiles == RangeVerseFiles(MaxVerse)
CliPericopeFiles ==
    PericopeFiles(CliRowCounts, MaxVerse, FALSE, FALSE, PericopeIds)
    \cup PericopeFiles(CliRowCounts, MaxVerse, FALSE, TRUE, PericopeIds)

ValidateVerseFiles == RangeVerseFiles(MaxVerse)
ValidatePericopeFiles ==
    PericopeFiles(0 .. MaxPericopes, MaxVerse, TRUE, FALSE, SameIds)

AssembleVerseFiles == AnyVerseFiles(RowCounts, MaxAsmVerse, {TextGreek, TextLatin})
AssemblePericopeFiles ==
    PericopeFiles(RowCounts, MaxAsmVerse, TRUE, FALSE, PericopeIds)

-----------------------------------------------------------------------------
(* main *)

Args(nposs, stricts, rfcs, fallbacks) ==
    [npos : nposs, strict : stricts, rfc : rfcs, fallback : fallbacks]

InitWith(args) ==
    /\ argv \in args
    /\ pc = "start"
    /\ verses_df = << >>
    /\ pericopes_df = << >>
    /\ has_order = FALSE
    /\ ok = TRUE
    /\ warnings = << >>
    /\ data = << >>
    /\ out_json = NoFile
    /\ log = << >>
    /\ exit_status = NoStatus

Exit(status) ==
    /\ pc' = "exited"
    /\ exit_status' = status

\* ap.parse_args() with a positional argument missing: argparse's error()
UsageError ==
    /\ pc = "start"
    /\ argv.npos # 3
    /\ Exit(ExitArgparse)
    /\ UNCHANGED << argv, verses_df, pericopes_df, has_order, ok, warnings,
                    data, out_json, log >>

ParseArgs ==
    /\ pc = "start"
    /\ argv.npos = 3
    /\ pc' = "parsed"
    /\ UNCHANGED << argv, verses_df, pericopes_df, has_order, ok, warnings,
                    data, out_json, log, exit_status >>

LoadVerses(files) ==
    /\ pc = "parsed"
    /\ \E rows \in files : verses_df' = load_verses(rows)
    /\ pc' = "verses_loaded"
    /\ UNCHANGED << argv, pericopes_df, has_order, ok, warnings,
                    data, out_json, log, exit_status >>

\* a 'chapter', 'verse' or 'text' column is missing
LoadVersesFails ==
    /\ pc = "parsed"
    /\ log' = << LoadError("verses column missing", << >>) >>
    /\ Exit(ExitFatal)
    /\ UNCHANGED << argv, verses_df, pericopes_df, has_order, ok, warnings,
                    data, out_json >>

LoadPericopes(files) ==
    /\ pc = "verses_loaded"
    /\ \E f \in files :
         LET df == SortPericopes(f.rows, f.has_order)
         IN  IF BadIntervals(df) # << >>
             THEN /\ log' = << LoadError("start_verse > end_verse", BadIntervals(df)) >>
                  /\ Exit(ExitFatal)
                  /\ UNCHANGED << pericopes_df, has_order >>
             ELSE /\ pericopes_df' = df
                  /\ has_order' = f.has_order
                  /\ pc' = "loaded"
                  /\ UNCHANGED << exit_status, log >>
    /\ UNCHANGED << argv, verses_df, ok, warnings, data, out_json >>

\* a required column of the pericope file is missing
LoadPericopesFails ==
    /\ pc = "verses_loaded"
    /\ log' = << LoadError("pericopes column missing", << >>) >>
    /\ Exit(ExitFatal)
    /\ UNCHANGED << argv, verses_df, pericopes_df, has_order, ok, warnings,
                    data, out_json >>

Validate ==
    /\ pc = "loaded"
    /\ LET res == validate_pericopes(verses_df, pericopes_df, argv.rfc)
       IN  /\ ok' = res.ok
           /\ warnings' = res.warnings
    /\ pc' = "validated"
    /\ UNCHANGED << argv, verses_df, pericopes_df, has_order,
                    data, out_json, log, exit_status >>

\* faulty variant: --strict looks at the verdict instead of the warning list
StrictAborts_OnVerdict == argv.strict /\ ~ ok

StrictAborts == argv.strict /\ warnings # << >>

StrictAbort ==
    /\ pc = "validated"
    /\ StrictAborts
    /\ Exit(ExitStrict)
    /\ UNCHANGED << argv, verses_df, pericopes_df, has_order, ok, warnings,
                    data, out_json, log >>

BuildJson ==
    /\ pc = "validated"
    /\ ~ StrictAborts
    /\ data' = build_json(verses_df, pericopes_df, has_order, argv.fallback)
    /\ log' = BuildLog(data')
    /\ pc' = "built"
    /\ UNCHANGED << argv, verses_df, pericopes_df, has_order, ok, warnings,
                    out_json, exit_status >>

\* json.dump to out_json, then main returns
WriteOutput ==
    /\ pc = "built"
    /\ out_json' = data
    /\ Exit(ExitOk)
    /\ UNCHANGED << argv, verses_df, pericopes_df, has_order, ok, warnings,
                    data, log >>

Pipeline ==
    \/ UsageError
    \/ ParseArgs
    \/ LoadVersesFails
    \/ LoadPericopesFails
    \/ Validate
    \/ StrictAbort
    \/ BuildJson
    \/ WriteOutput

\* every command line, small files
Init == InitWith(Args(0 .. 3, BOOLEAN, BOOLEAN, BOOLEAN))
Next ==
    \/ Pipeline
    \/ LoadVerses(CliVerseFiles)
    \/ LoadPericopes(CliPericopeFiles)
Spec == Init /\ [][Next]_vars

\* the validator's inputs: every partition, gap and overlap of up to MaxPericopes rows
InitValidate == InitWith(Args({2, 3}, BOOLEAN, BOOLEAN, {FALSE}))
NextValidate ==
    \/ Pipeline
    \/ LoadVerses(ValidateVerseFiles)
    \/ LoadPericopes(ValidatePericopeFiles)
SpecValidate == InitValidate /\ [][NextValidate]_vars

\* the assembler's inputs: unsorted and repeated verse rows, both tokenizer modes
InitAssemble == InitWith(Args({2, 3}, BOOLEAN, {FALSE}, BOOLEAN))
NextAssemble ==
    \/ Pipeline
    \/ LoadVerses(AssembleVerseFiles)
    \/ LoadPericopes(AssemblePericopeFiles)
SpecAssemble == InitAssemble /\ [][NextAssemble]_vars

\* the walk's inputs: tables with an 'order' column that may disagree with the
\* verse order, and chapters of up to three pericopes
WalkVerseFiles == RangeVerseFiles(MaxVerse)
OneChapterFiles(counts, maxv) ==
    { f \in PericopeFiles(counts, maxv, TRUE, FALSE, PericopeIds) :
        \A i \in 1 .. Len(f.rows) : f.rows[i].chapter = 1 }
WalkPericopeFiles ==
    PericopeFiles(RowCounts, MaxVerse, TRUE, TRUE, PericopeIds)
    \cup OneChapterFiles(WalkRowCounts, MaxVerse)

InitWalk == InitWith(Args({2, 3}, BOOLEAN, BOOLEAN, {FALSE}))
NextWalk ==
    \/ Pipeline
    \/ LoadVerses(WalkVerseFiles)
    \/ LoadPericopes(WalkPericopeFiles)
SpecWalk == InitWalk /\ [][NextWalk]_vars

-----------------------------------------------------------------------------
(* Vocabulary of the properties *)

Range(s) == { s[i] : i \in 1 .. Len(s) }

\* the cursor last_end when the walk of chap reaches its i-th pericope
CursorBefore(chap, i) ==
    Walk([ok |-> TRUE, warnings |-> << >>, last_end |-> 0],
         SubSeq(WalkOrder(pericopes_df, chap), 1, i - 1), chap, argv.rfc).last_end

\* the visits of the walk: a chapter and a position in its walk order
Visits ==
    { v \in ChaptersOf(pericopes_df) \X (1 .. Len(pericopes_df)) :
        v[2] <= Len(WalkOrder(pericopes_df, v[1])) }
Visited(v) == WalkOrder(pericopes_df, v[1])[v[2]]

OverlapAt(v) ==
    Visited(v).start_verse <= CursorBefore(v[1], v[2]) /\ CursorBefore(v[1], v[2]) # 0
GapAt(v) == Visited(v).start_verse # CursorBefore(v[1], v[2]) + 1

VerseNumbers(chap) ==
    { verses_df[i].verse : i \in { j \in 1 .. Len(verses_df) : verses_df[j].chapter = chap } }
HasVerses(chap) == VerseNumbers(chap) # {}
NoVersesRow(r) == ~ HasVerses(r.chapter)
BeyondRow(r) == HasVerses(r.chapter) /\ r.end_verse > Max(VerseNumbers(r.chapter))

\* C1: a visited pericope whose start_verse <= last_end, with last_end # 0,
\* leaves an overlap warning and the verdict ok = FALSE, whatever the
\* require_full_coverage flag.
C1_OverlapFails ==
    pc = "validated" =>
        \A v \in Visits :
            OverlapAt(v) =>
                /\ ~ ok
                /\ Warning("overlap", v[1], "", Visited(v).start_verse,
                           CursorBefore(v[1], v[2])) \in Range(warnings)

C1_Witness ==
    /\ pc = "validated"
    /\ ~ argv.rfc
    /\ ~ ok
    /\ Len(pericopes_df) = 2
    /\ pericopes_df[1].chapter = 1 /\ pericopes_df[2].chapter = 1
    /\ pericopes_df[1].start_verse = 1 /\ pericopes_df[1].end_verse = 2
    /\ pericopes_df[2].start_verse = 2 /\ pericopes_df[2].end_verse = 3
    /\ Warning("overlap", 1, "", 2, 2) \in Range(warnings)

\* the input's only findings are gaps
OnlyGaps ==
    /\ \E v \in Visits : GapAt(v)
    /\ \A v \in Visits : ~ OverlapAt(v)
    /\ \A r \in Range(pericopes_df) : ~ NoVersesRow(r) /\ ~ BeyondRow(r)
    /\ \A c \in ChaptersOf(pericopes_df) :
         CursorBefore(c, Len(WalkOrder(pericopes_df, c)) + 1) = Max(VerseNumbers(c))

\* C2: a visited pericope whose start_verse # last_end + 1 leaves a gap
\* warning; when gaps are the input's only findings the verdict is
\* ok = ~ require_full_coverage.
C2_GapFatalOnlyUnderCoverage ==
    pc = "validated" =>
        /\ \A v \in Visits :
             GapAt(v) => Warning("gap", v[1], "", CursorBefore(v[1], v[2]),
                                 Visited(v).start_verse) \in Range(warnings)
        /\ OnlyGaps => (ok <=> ~ argv.rfc)

C2_Witness ==
    /\ pc = "validated"
    /\ ~ argv.rfc
    /\ ok
    /\ OnlyGaps
    /\ VerseNumbers(1) = {1, 2, 3}
    /\ Len(pericopes_df) = 2
    /\ pericopes_df[1].chapter = 1 /\ pericopes_df[2].chapter = 1
    /\ pericopes_df[1].end_verse = 1 /\ pericopes_df[2].start_verse = 3
    /\ warnings = << Warning("gap", 1, "", 1, 3) >>

\* chap's pericopes, by ascending start_verse, tile 1 .. the chapter's last verse
Partitioned(chap) ==
    LET g == WalkOrder(pericopes_df, chap)
    IN  /\ g[1].start_verse = 1
        /\ \A i \in 1 .. Len(g) - 1 : g[i + 1].start_verse = g[i].end_verse + 1
        /\ HasVerses(chap)
        /\ g[Len(g)].end_verse = Max(VerseNumbers(chap))

\* C3: when every chapter's pericopes start at verse 1, follow one another
\* without gap and end at the chapter's last verse, validate returns
\* ok = TRUE and no warning, under either value of require_full_coverage.
C3_PartitionIsClean ==
    (pc = "validated" /\ \A c \in ChaptersOf(pericopes_df) : Partitioned(c))
        => (ok /\ warnings = << >>)

C3_Witness ==
    /\ pc = "validated"
    /\ argv.rfc
    /\ Len(pericopes_df) = 2
    /\ pericopes_df[1].chapter = 1 /\ pericopes_df[2].chapter = 1
    /\ pericopes_df[1].end_verse = 1 /\ pericopes_df[2].start_verse = 2
    /\ Partitioned(1)
    /\ VerseNumbers(1) = {1, 2, 3}
    /\ ok /\ warnings = << >>

\* C4: under --strict a non-empty warning list ends the run with status 2
\* before assembly (build_json not run, no output file); without --strict
\* assembly and the writing of the output follow validation whatever the
\* warnings.
C4_StrictAbortsBeforeAssembly ==
    /\ [] ( (argv.strict /\ warnings # << >>) =>
              /\ pc \in {"validated", "exited"}
              /\ data = << >> /\ log = << >> /\ out_json = NoFile
              /\ pc = "exited" => exit_status = ExitStrict )
    /\ [] ( (pc = "exited" /\ ~ argv.strict /\ warnings # << >>) =>
              (out_json = data /\ exit_status = ExitOk) )
    /\ [][ /\ (pc = "validated" /\ argv.strict /\ warnings # << >>) =>
                (pc' = "exited" /\ exit_status' = ExitStrict)
           /\ (pc = "validated" /\ ~ argv.strict) =>
                /\ pc' = "built"
                /\ data' = build_json(verses_df, pericopes_df, has_order, argv.fallback)
           /\ (pc = "built" /\ ~ argv.strict) =>
                (pc' = "exited" /\ exit_status' = ExitOk /\ out_json' = data)
         ]_vars

C4_Witness ==
    /\ pc = "exited"
    /\ argv.strict
    /\ warnings # << >>
    /\ exit_status = ExitStrict
    /\ out_json = NoFile

\* C5: with --require-full-coverage and without --strict, a gap or a
\* coverage mismatch (verdict ok = FALSE) makes the run fail with status 1.
C5_CoverageFailureIsFatal ==
    ( /\ pc = "exited"
      /\ argv.rfc /\ ~ argv.strict
      /\ ~ ok
      /\ \E w \in Range(warnings) : w.kind \in {"gap", "mismatch"} )
        => exit_status = ExitFatal

\* C6: with fewer than three positional arguments the process exits with
\* status 1 before reading an input file or writing the output file.
C6_UsageExitsWithOne ==
    (pc = "exited" /\ argv.npos < 3) =>
        /\ exit_status = ExitFatal
        /\ verses_df = << >> /\ pericopes_df = << >>
        /\ out_json = NoFile

\* the pericopes the second loop of validate reports, one warning each
Reported == SelectSeq(pericopes_df, LAMBDA r : NoVersesRow(r) \/ BeyondRow(r))

\* C10: each pericope whose chapter has no verse row, and each pericope whose
\* end_verse exceeds its chapter's last verse, leaves one warning of its own
\* and the verdict ok = FALSE, whatever the require_full_coverage flag.
C10_EachPericopeChecked ==
    pc = "validated" =>
        /\ \A r \in Range(pericopes_df) :
             /\ NoVersesRow(r) =>
                  (~ ok /\ Warning("noverses", r.chapter, "", 0, 0) \in Range(warnings))
             /\ BeyondRow(r) =>
                  /\ ~ ok
                  /\ Warning("beyond", r.chapter, r.pericope_id, r.end_verse,
                             Max(VerseNumbers(r.chapter))) \in Range(warnings)
        /\ Len(SelectSeq(warnings, LAMBDA w : w.kind \in {"noverses", "beyond"}))
             = Len(Reported)

C10_Witness ==
    /\ pc = "validated"
    /\ ~ argv.rfc
    /\ ~ ok
    /\ Len(pericopes_df) = 2
    /\ BeyondRow(pericopes_df[1])
    /\ NoVersesRow(pericopes_df[2])
    /\ pericopes_df[2].start_verse = 1
    /\ Len(warnings) = 3

\* the blocks of the output, each with the chapter of the block holding it
BlocksOut ==
    UNION { { [chapter |-> data[i].chapter, block |-> data[i].pericopes[j]] :
                j \in 1 .. Len(data[i].pericopes) } : i \in 1 .. Len(data) }

\* the verse records of chap with start <= verse <= end, in the loader's order
VersesWithin(chap, start, end) ==
    SelectSeq(verses_df, LAMBDA v : v.chapter = chap /\ start <= v.verse /\ v.verse <= end)

VerseBlocks(vs) ==
    [ i \in 1 .. Len(vs) |->
        [ verse |-> vs[i].verse,
          tokens |-> parse_lemmas_text_only(vs[i].text, argv.fallback) ] ]

Covered(v) ==
    \E r \in Range(pericopes_df) :
        r.chapter = v.chapter /\ r.start_verse <= v.verse /\ v.verse <= r.end_verse

\* C7: the verses of a pericope block are exactly the chapter's verse records
\* with start_verse <= verse <= end_verse, by ascending verse, equal verse
\* numbers in loader order; a verse in no interval is in no block, and an
\* interval without verses gives an empty sequence.
C7_BlockHoldsItsInterval ==
    pc = "built" =>
        /\ \A r \in Range(pericopes_df) :
             \E b \in BlocksOut :
                 /\ b.chapter = r.chapter
                 /\ b.block.id = r.pericope_id
                 /\ b.block.start_verse = r.start_verse
                 /\ b.block.end_verse = r.end_verse
        /\ \A b \in BlocksOut :
             LET vs == b.block.verses
             IN  /\ vs = VerseBlocks(VersesWithin(b.chapter, b.block.start_verse,
                                                  b.block.end_verse))
                 /\ \A i \in 1 .. Len(vs) - 1 : vs[i].verse <= vs[i + 1].verse
        /\ \A v \in Range(verses_df) :
             ~ Covered(v) =>
                 \A b \in BlocksOut :
                     b.chapter = v.chapter =>
                         \A i \in 1 .. Len(b.block.verses) :
                             b.block.verses[i].verse # v.verse

C7_Witness ==
    /\ pc = "built"
    /\ Len(verses_df) = 2
    /\ verses_df[1].chapter = 1 /\ verses_df[2].chapter = 1
    /\ verses_df[1].verse = 1 /\ verses_df[2].verse = 2
    /\ Len(pericopes_df) = 2
    /\ pericopes_df[1].chapter = 1 /\ pericopes_df[2].chapter = 2
    /\ pericopes_df[1].start_verse = 1 /\ pericopes_df[1].end_verse = 1
    /\ Len(data) = 2
    /\ Len(data[1].pericopes[1].verses) = 1
    /\ data[1].pericopes[1].verses[1].verse = 1
    /\ data[2].pericopes[1].verses = << >>

\* C8: one chapter block per chapter of either table, in ascending order; a
\* chapter with verses only has no pericope block; a chapter with pericopes
\* only has one block per pericope, each without verses, and validate has
\* warned about the chapter.
C8_ChaptersOfEitherTable ==
    pc = "built" =>
        /\ { data[i].chapter : i \in 1 .. Len(data) }
             = ChaptersOf(verses_df) \cup ChaptersOf(pericopes_df)
        /\ \A i \in 1 .. Len(data) - 1 : data[i].chapter < data[i + 1].chapter
        /\ \A i \in 1 .. Len(data) :
             LET c == data[i].chapter
             IN  /\ Len(data[i].pericopes) = Len(Group(pericopes_df, c))
                 /\ c \notin ChaptersOf(pericopes_df) => data[i].pericopes = << >>
                 /\ c \notin ChaptersOf(verses_df) =>
                      /\ \A j \in 1 .. Len(data[i].pericopes) :
                           data[i].pericopes[j].verses = << >>
                      /\ \E w \in Range(warnings) : w.chap = c /\ w.kind = "noverses"

C8_Witness ==
    /\ pc = "built"
    /\ ChaptersOf(verses_df) = {1}
    /\ ChaptersOf(pericopes_df) = {2}
    /\ Len(pericopes_df) = 2
    /\ Len(data) = 2
    /\ data[1].chapter = 1 /\ data[1].pericopes = << >>
    /\ data[2].chapter = 2 /\ Len(data[2].pericopes) = 2
    /\ data[2].pericopes[1].verses = << >> /\ data[2].pericopes[2].verses = << >>
    /\ warnings # << >>

RECURSIVE Sum(_)
Sum(ns) == IF ns = << >> THEN 0 ELSE Head(ns) + Sum(Tail(ns))

TokenCount(v) == Len(parse_lemmas_text_only(v.text, argv.fallback))

\* the tokens of all the verse blocks of the output
OutputTokens ==
    Sum([ i \in 1 .. Len(data) |->
        Sum([ j \in 1 .. Len(data[i].pericopes) |->
            Sum([ k \in 1 .. Len(data[i].pericopes[j].verses) |->
                Len(data[i].pericopes[j].verses[k].tokens) ]) ]) ])

\* the extractor's tokens of the verse records lying in some interval, each once
CoveredTokens ==
    Sum([ i \in 1 .. Len(verses_df) |->
            IF Covered(verses_df[i]) THEN TokenCount(verses_df[i]) ELSE 0 ])

\* the same, each verse record once for every pericope whose interval holds it
CoveredTokensPerPericope ==
    Sum([ j \in 1 .. Len(pericopes_df) |->
        Sum([ i \in 1 .. Len(verses_df) |->
            IF /\ verses_df[i].chapter = pericopes_df[j].chapter
               /\ pericopes_df[j].start_verse <= verses_df[i].verse
               /\ verses_df[i].verse <= pericopes_df[j].end_verse
            THEN TokenCount(verses_df[i]) ELSE 0 ]) ])

\* C9 as stated: the output's token count is the extractor's count over the
\* verse records lying in some pericope's interval, each record counted once.
C9_TokensCountedOnce ==
    pc = "built" => OutputTokens = CoveredTokens

\* C9 amended: each verse record counts once for every pericope of its
\* chapter whose interval holds its verse number.
C9_TokensCountedPerPericope ==
    pc = "built" => OutputTokens = CoveredTokensPerPericope

C9_Witness ==
    /\ pc = "built"
    /\ Len(verses_df) = 1
    /\ Len(pericopes_df) = 2
    /\ pericopes_df[1].chapter = 1 /\ pericopes_df[2].chapter = 1
    /\ pericopes_df[1].start_verse = 1 /\ pericopes_df[1].end_verse = 1
    /\ pericopes_df[2].start_verse = 1 /\ pericopes_df[2].end_verse = 2
    /\ CoveredTokens = 2
    /\ OutputTokens = 4

\* the cursor last_end once the walk of chap has visited all its pericopes
FinalCursor(chap) == CursorBefore(chap, Len(WalkOrder(pericopes_df, chap)) + 1)

\* the chapters whose walk ends off the chapter's last verse
Mismatched ==
    { c \in ChaptersOf(pericopes_df) :
        HasVerses(c) /\ FinalCursor(c) # Max(VerseNumbers(c)) }

\* the input's only findings are coverage mismatches
OnlyMismatches ==
    /\ Mismatched # {}
    /\ \A v \in Visits : ~ OverlapAt(v) /\ ~ GapAt(v)
    /\ \A r \in Range(pericopes_df) : ~ NoVersesRow(r) /\ ~ BeyondRow(r)

\* C11: after a chapter's walk the final cursor is compared with the
\* chapter's last verse; a difference leaves one mismatch warning, and it
\* fails the verdict only under require_full_coverage.
C11_MismatchFatalOnlyUnderCoverage ==
    pc = "validated" =>
        /\ \A c \in ChaptersOf(pericopes_df) :
             HasVerses(c) =>
                 ( c \in Mismatched <=>
                     Warning("mismatch", c, "", FinalCursor(c), Max(VerseNumbers(c)))
                         \in Range(warnings) )
        /\ Len(SelectSeq(warnings, LAMBDA w : w.kind = "mismatch"))
             = Cardinality(Mismatched)
        /\ (Mismatched # {} /\ argv.rfc) => ~ ok
        /\ OnlyMismatches => (ok <=> ~ argv.rfc)

C11_Witness ==
    /\ pc = "validated"
    /\ ~ argv.rfc
    /\ ok
    /\ OnlyMismatches
    /\ VerseNumbers(1) = {1, 2, 3}
    /\ Len(pericopes_df) = 1
    /\ pericopes_df[1].start_verse = 1 /\ pericopes_df[1].end_verse = 2
    /\ warnings = << Warning("mismatch", 1, "", 2, 3) >>

\* the run was stopped by load_pericopes on a row with start_verse > end_verse
RejectedIntervals ==
    \E m \in Range(log) :
        "error" \in DOMAIN m /\ m.error = "start_verse > end_verse"

\* C12: a pericope table with a row whose start_verse exceeds its end_verse
\* ends the run in load_pericopes with status 1: no such table is ever
\* validated or assembled, and the rejecting run invokes neither validate nor
\* the assembler and writes no output.
C12_BadIntervalAborts ==
    /\ [] ( BadIntervals(pericopes_df) = << >> )
    /\ [] ( RejectedIntervals =>
              /\ pc = "exited" /\ exit_status = ExitFatal
              /\ \E m \in Range(log) :
                   /\ "error" \in DOMAIN m
                   /\ m.rows # << >>
                   /\ \A r \in Range(m.rows) : r.start_verse > r.end_verse
              /\ pericopes_df = << >>
              /\ ok /\ warnings = << >>
              /\ data = << >> /\ out_json = NoFile )
    /\ [][ pc = "verses_loaded" =>
             \/ pc' = "loaded" /\ ~ RejectedIntervals'
             \/ pc' = "exited" /\ exit_status' = ExitFatal /\ log' # << >>
         ]_vars

C12_Witness ==
    /\ pc = "exited"
    /\ exit_status = ExitFatal
    /\ RejectedIntervals
    /\ Len(log) = 1
    /\ Len(log[1].rows) = 1
    /\ log[1].rows[1].start_verse = 2 /\ log[1].rows[1].end_verse = 1
    /\ verses_df # << >>
    /\ out_json = NoFile

\* the verse records whose tokens in the output come from the whitespace split
FallbackVerses ==
    { i \in 1 .. Len(verses_df) :
        /\ Covered(verses_df[i])
        /\ UsesFallback(verses_df[i].text, argv.fallback)
        /\ parse_lemmas_text_only(verses_df[i].text, argv.fallback) # << >> }

\* C13: every verse whose tokens were produced by the whitespace fallback has
\* a logged diagnostic naming that verse, and the tokens of the output come
\* from the fallback only when the flag is set and the text has no Greek word.
C13_FallbackIsLogged ==
    pc = "built" =>
        /\ \A i \in FallbackVerses :
             \E m \in Range(log) :
                 /\ "verse" \in DOMAIN m
                 /\ m.chapter = verses_df[i].chapter
                 /\ m.verse = verses_df[i].verse
        /\ \A i \in 1 .. Len(verses_df) :
             LET t == verses_df[i].text
             IN  (~ argv.fallback \/ GreekWords(t) # << >>) =>
                     parse_lemmas_text_only(t, argv.fallback) = Lemmas(GreekWords(t))

\* C14: after each pericope of a chapter's walk the cursor is the larger of
\* the cursor before it and the pericope's end_verse, so the cursor never
\* decreases within a chapter.
C14_CursorIsMaximum ==
    pc = "validated" =>
        \A v \in Visits :
            /\ CursorBefore(v[1], v[2] + 1)
                 = Max({ CursorBefore(v[1], v[2]), Visited(v).end_verse })
            /\ CursorBefore(v[1], v[2] + 1) >= CursorBefore(v[1], v[2])

\* the intervals of chap's pericopes in the order validate walks them
WalkIntervals(chap) ==
    LET w == WalkOrder(pericopes_df, chap)
    IN  [ i \in 1 .. Len(w) |-> << w[i].start_verse, w[i].end_verse >> ]

\* the intervals of chap's pericope blocks in the order of the output
EmittedIntervals(chap) ==
    LET c == CHOOSE i \in 1 .. Len(data) : data[i].chapter = chap
        bs == data[c].pericopes
    IN  [ j \in 1 .. Len(bs) |-> << bs[j].start_verse, bs[j].end_verse >> ]

\* the intervals of chap's pericopes in the order of the loaded table
TableIntervals(chap) ==
    LET g == Group(pericopes_df, chap)
    IN  [ i \in 1 .. Len(g) |-> << g[i].start_verse, g[i].end_verse >> ]

\* seq is ascending in the lexicographic order of its tuples
AscendingTuples(seq) ==
    \A i \in 1 .. Len(seq) - 1 : seq[i] = seq[i + 1] \/ LexLess(seq[i], seq[i + 1])

\* the same elements with the same multiplicities
SameBag(s, t) ==
    /\ Len(s) = Len(t)
    /\ \A x \in Range(s) \cup Range(t) :
         Cardinality({ i \in 1 .. Len(s) : s[i] = x })
             = Cardinality({ i \in 1 .. Len(t) : t[i] = x })

\* C15 as stated: validate walks a chapter's pericopes by the order column
\* when the table has one and by (start_verse, end_verse) otherwise, which is
\* the order of the chapter's pericope blocks in the output.
C15_WalkInCanonicalOrder ==
    pc = "built" =>
        \A c \in ChaptersOf(pericopes_df) :
            /\ WalkIntervals(c) = EmittedIntervals(c)
            /\ has_order =>
                   AscendingTuples([ i \in 1 .. Len(WalkOrder(pericopes_df, c)) |->
                                       << WalkOrder(pericopes_df, c)[i].order >> ])
            /\ ~ has_order => AscendingTuples(WalkIntervals(c))

\* C15, amended: validate walks a chapter's pericopes by (start_verse,
\* end_verse) ascending whether or not the table has an order column; the
\* output has the chapter's blocks in the loaded table's order (by the order
\* column when there is one), and the two orders are the same when the table
\* has no order column.
C15_WalkByStartVerse ==
    pc = "built" =>
        \A c \in ChaptersOf(pericopes_df) :
            /\ AscendingTuples(WalkIntervals(c))
            /\ SameBag(WalkIntervals(c), TableIntervals(c))
            /\ EmittedIntervals(c) = TableIntervals(c)
            /\ ~ has_order => WalkIntervals(c) = EmittedIntervals(c)

C15_Witness ==
    /\ pc = "built"
    /\ has_order
    /\ Len(pericopes_df) = 2
    /\ pericopes_df[1].order < pericopes_df[2].order
    /\ WalkIntervals(1) = << <<1, 1>>, <<2, 3>> >>
    /\ EmittedIntervals(1) = << <<2, 3>>, <<1, 1>> >>

\* two rows of the table, of one chapter, whose intervals share a verse
Intersecting(i, j) ==
    /\ i # j
    /\ pericopes_df[i].chapter = pericopes_df[j].chapter
    /\ pericopes_df[i].start_verse <= pericopes_df[j].end_verse
    /\ pericopes_df[j].start_verse <= pericopes_df[i].end_verse

\* C16: when two distinct pericopes of a chapter have intersecting intervals,
\* wherever they stand in the table, validate returns ok = false and an
\* overlap warning for that chapter, under both values of
\* require_full_coverage; detect_overlaps reports that chapter too.
C16_AnyIntersectionFails ==
    pc = "validated" =>
        \A i, j \in 1 .. Len(pericopes_df) :
            Intersecting(i, j) =>
                /\ ~ ok
                /\ \E w \in Range(warnings) :
                       w.kind = "overlap" /\ w.chap = pericopes_df[i].chapter
                /\ \E w \in Range(detect_overlaps(pericopes_df)) :
                       w.chap = pericopes_df[i].chapter

C16_Witness ==
    /\ pc = "validated"
    /\ ~ argv.rfc
    /\ Len(pericopes_df) = 3
    /\ Intersecting(1, 3)
    /\ ~ Intersecting(2, 3)
    /\ WalkIntervals(1) = << <<1, 3>>, <<2, 2>>, <<3, 3>> >>
    /\ ~ ok
    /\ Len(SelectSeq(warnings, LAMBDA w : w.kind = "overlap")) = 1

=============================================================================
